---- MODULE Spec2Model ----
(***************************************************************************)
(* Model of the AIOS monitor hooks (.aios-core/monitor/hooks): the four    *)
(* hook entry points, the context enricher (lib/enrich.py) and the event   *)
(* sender (lib/send_event.py).                                             *)
(*                                                                         *)
(* A Python str is a sequence of one-character strings.  A JSON / Python   *)
(* value is a record [t |-> tag, v |-> payload]; a dict is a function from *)
(* key names to values.                                                    *)
(***************************************************************************)
EXTENDS Integers, Sequences, FiniteSets, TLC

VARIABLES hook, pc, stdin, data, env, conf, fs, net, posts, result, exitCode

vars == <<hook, pc, stdin, data, env, conf, fs, net, posts, result, exitCode>>

(***************************************************************************)
(* Bounds of the explored inputs.                                          *)
(***************************************************************************)
\* strings are explored up to this many characters over each ceiling
Slack == 4
\* prompts hold up to this many '@'-prefixed role tokens
MaxTokens == 2

(***************************************************************************)
(* Values.                                                                 *)
(***************************************************************************)
JStr(s) == [t |-> "str", v |-> s]
JNum(n) == [t |-> "num", v |-> n]
JNull == [t |-> "null", v |-> 0]
JList(l) == [t |-> "list", v |-> l]
JObj(f) == [t |-> "obj", v |-> f]
\* a Python object json.dumps cannot serialize (a set, say)
PyObj == [t |-> "pyobj", v |-> 0]
PyBool(b) == [t |-> "bool", v |-> b]
\* no value returned (yet)
Pending == [t |-> "pending", v |-> 0]

EmptyDict == [k \in {} |-> JNull]

\* Python truthiness of a value
Truthy(j) ==
    CASE j.t = "str" -> j.v # <<>>
      [] j.t = "num" -> j.v # 0
      [] j.t = "null" -> FALSE
      [] j.t = "list" -> j.v # <<>>
      [] j.t = "obj" -> DOMAIN j.v # {}
      [] j.t = "bool" -> j.v
      [] OTHER -> TRUE

\* d[k] = val on a dict: adds the key or overwrites its value
SetKey(d, k, val) == [x \in DOMAIN d \cup {k} |-> IF x = k THEN val ELSE d[x]]

\* s[:n]
Take(s, n) == IF Len(s) <= n THEN s ELSE SubSeq(s, 1, n)

\* the string of n characters c d c d ...
Rep(n, c, d) == [i \in 1..n |-> IF i % 2 = 1 THEN c ELSE d]

(***************************************************************************)
(* The hooks and their bounding steps.                                     *)
(***************************************************************************)
PreToolUse == "PreToolUse"
PostToolUse == "PostToolUse"
UserPromptSubmit == "UserPromptSubmit"
Stop == "Stop"
Hooks == {PreToolUse, PostToolUse, UserPromptSubmit, Stop}

ToolInputCeiling == 500
ToolResultCeiling == 1000
UserPromptCeiling == 1000

Dots == <<".", ".", ".">>
DotsTruncated == <<".", ".", ".", "[", "t", "r", "u", "n", "c", "a", "t", "e", "d", "]">>

\* Cut with the marker appended to the whole value (no slice)
CutRaw(value, ceiling, marker) ==
    IF value.t = "str" /\ Len(value.v) > ceiling
    THEN JStr(value.v \o marker)
    ELSE value

\* Cut with >= in place of >
CutAtCeiling(value, ceiling, marker) ==
    IF value.t = "str" /\ Len(value.v) >= ceiling
    THEN JStr(Take(value.v, ceiling) \o marker)
    ELSE value

\* if isinstance(value, str) and len(value) > ceiling: value[:ceiling] + marker
Cut(value, ceiling, marker) ==
    IF value.t = "str" /\ Len(value.v) > ceiling
    THEN JStr(Take(value.v, ceiling) \o marker)
    ELSE value

\* the tool_input block of pre_tool_use.py and post_tool_use.py, on a dict
BoundToolInput(d) ==
    IF "tool_input" \in DOMAIN d /\ d["tool_input"].t = "obj"
    THEN [d EXCEPT !["tool_input"] =
            JObj([key \in DOMAIN d["tool_input"].v |->
                    Cut(d["tool_input"].v[key], ToolInputCeiling, Dots)])]
    ELSE d

\* the tool_result block of post_tool_use.py, on a dict
BoundToolResult(d) ==
    IF "tool_result" \in DOMAIN d
    THEN [d EXCEPT !["tool_result"] = Cut(d["tool_result"], ToolResultCeiling, DotsTruncated)]
    ELSE d

\* the user_prompt block of user_prompt_submit.py, on a dict
BoundUserPrompt(d) ==
    IF "user_prompt" \in DOMAIN d
    THEN [d EXCEPT !["user_prompt"] = Cut(d["user_prompt"], UserPromptCeiling, Dots)]
    ELSE d

\* the statements of main() between json.load and enrich_event, on a dict
BoundDict(h, d) ==
    CASE h = PreToolUse -> BoundToolInput(d)
      [] h = PostToolUse -> BoundToolInput(BoundToolResult(d))
      [] h = UserPromptSubmit -> BoundUserPrompt(d)
      [] OTHER -> d

(***************************************************************************)
(* Inputs of the bounding step.                                            *)
(***************************************************************************)
\* lengths at, just under and over a ceiling
LensAround(ceiling) == {ceiling - 1, ceiling, ceiling + 1, ceiling + Slack}

LongStrings(ceiling) == {JStr(Rep(n, "a", "b")) : n \in LensAround(ceiling)}

ToolInputArgs ==
    LongStrings(ToolInputCeiling) \cup {JNum(7), JStr(Rep(UserPromptCeiling + 1, ".", "]"))}

ToolInputPaths == {JStr(<<>>), JNull, JStr(Rep(ToolInputCeiling + Slack, "b", "."))}

ToolInputValues ==
    {JObj([k \in {"command", "path"} |-> IF k = "command" THEN c ELSE p]) :
        c \in ToolInputArgs, p \in ToolInputPaths}
        \cup {JObj(EmptyDict), JStr(Rep(ToolInputCeiling + 1, "a", "b")), JNum(7)}

ToolResultValues ==
    LongStrings(ToolResultCeiling)
        \cup {JStr(Rep(ToolInputCeiling + 1, "a", "b")),
              JObj([k \in {"out"} |-> JStr(Rep(ToolResultCeiling + 1, "a", "b"))])}

UserPromptValues == LongStrings(UserPromptCeiling) \cup {JNum(7)}

\* the dicts with keys among tool_input, tool_result, user_prompt, session_id
BoundInputs ==
    UNION {
        {[k \in K |->
            CASE k = "tool_input" -> ti
              [] k = "tool_result" -> tr
              [] k = "user_prompt" -> up
              [] OTHER -> JStr(<<"s", "1">>)] :
            ti \in ToolInputValues, tr \in ToolResultValues, up \in UserPromptValues}
        : K \in SUBSET {"tool_input", "tool_result", "user_prompt", "session_id"}}

NoEnv == [n \in {} |-> <<>>]
NoConf == [url |-> <<>>, timeout_ms |-> 0]
NoFs == [cwd |-> <<>>, probe |-> <<>>]

InitBound ==
    /\ hook \in Hooks
    /\ stdin \in {JObj(d) : d \in BoundInputs}
    /\ data = stdin
    /\ pc = "parsed"
    /\ env = NoEnv
    /\ conf = NoConf
    /\ fs = NoFs
    /\ net = "none"
    /\ posts = 0
    /\ result = Pending
    /\ exitCode = -1

\* the bounding statements of main(), run on the parsed event
ApplyBound ==
    /\ pc = "parsed"
    /\ data' = JObj(BoundDict(hook, data.v))
    /\ pc' = "bounded"
    /\ UNCHANGED <<hook, stdin, env, conf, fs, net, posts, result, exitCode>>

\* the bounding statements run once more, on what they produced
ApplyBoundAgain ==
    /\ pc = "bounded"
    /\ stdin' = data
    /\ data' = JObj(BoundDict(hook, data.v))
    /\ pc' = "rebounded"
    /\ UNCHANGED <<hook, env, conf, fs, net, posts, result, exitCode>>

NextBound == ApplyBound \/ ApplyBoundAgain

SpecBound == InitBound /\ [][NextBound]_vars

(***************************************************************************)
(* Claims about the bounding step (SpecBound).  stdin is the event the     *)
(* last bounding step read, data the event it produced.                    *)
(***************************************************************************)
Markers == {Dots, DotsTruncated}

\* out is in with a string over the ceiling replaced by its first `ceiling'
\* characters followed by marker, and is in itself otherwise
IsCutOf(out, in, ceiling, marker) ==
    IF in.t = "str" /\ Len(in.v) > ceiling
    THEN /\ out.t = "str"
         /\ Len(out.v) = ceiling + Len(marker)
         /\ \A i \in 1..ceiling : out.v[i] = in.v[i]
         /\ \A i \in 1..Len(marker) : out.v[ceiling + i] = marker[i]
    ELSE out = in

\* C4: the bounding step of each hook equals the reference: strings over 500
\* characters inside an object tool_input are cut to 500 characters + "..."
\* (PreToolUse, PostToolUse), a string tool_result over 1000 characters to
\* 1000 characters + "...[truncated]" (PostToolUse), a string user_prompt over
\* 1000 characters to 1000 characters + a marker (UserPromptSubmit); every
\* other value is unchanged and the key sets of the event and of tool_input
\* are the same before and after.
C4_BoundingEqualsReference ==
    pc \in {"bounded", "rebounded"} =>
        /\ data.t = "obj"
        /\ DOMAIN data.v = DOMAIN stdin.v
        /\ \A k \in DOMAIN stdin.v :
            CASE k = "tool_input" /\ hook \in {PreToolUse, PostToolUse}
                    /\ stdin.v[k].t = "obj" ->
                    /\ data.v[k].t = "obj"
                    /\ DOMAIN data.v[k].v = DOMAIN stdin.v[k].v
                    /\ \A a \in DOMAIN stdin.v[k].v :
                        IsCutOf(data.v[k].v[a], stdin.v[k].v[a], 500, Dots)
              [] k = "tool_result" /\ hook = PostToolUse ->
                    IsCutOf(data.v[k], stdin.v[k], 1000, DotsTruncated)
              [] k = "user_prompt" /\ hook = UserPromptSubmit ->
                    \E m \in Markers : IsCutOf(data.v[k], stdin.v[k], 1000, m)
              [] OTHER -> data.v[k] = stdin.v[k]

\* PostToolUse has cut a tool_result and a tool_input.command over their ceilings
C4_Witness ==
    /\ pc = "bounded"
    /\ hook = PostToolUse
    /\ {"tool_result", "tool_input"} \subseteq DOMAIN stdin.v
    /\ stdin.v["tool_result"].t = "str"
    /\ Len(stdin.v["tool_result"].v) > 1000
    /\ Len(data.v["tool_result"].v) = 1014
    /\ stdin.v["tool_input"].t = "obj"
    /\ "command" \in DOMAIN stdin.v["tool_input"].v
    /\ stdin.v["tool_input"].v["command"].t = "str"
    /\ Len(stdin.v["tool_input"].v["command"].v) > 500
    /\ Len(data.v["tool_input"].v["command"].v) = 503

\* the strings of the event a hook bounds, as <<value before, value after, ceiling>>
BoundedPairs ==
    LET in == stdin.v
        out == data.v
    IN  (IF hook \in {PreToolUse, PostToolUse} /\ "tool_input" \in DOMAIN in
            /\ in["tool_input"].t = "obj"
         THEN {<<in["tool_input"].v[a], out["tool_input"].v[a], 500>> :
                    a \in DOMAIN in["tool_input"].v}
         ELSE {})
        \cup (IF hook = PostToolUse /\ "tool_result" \in DOMAIN in
              THEN {<<in["tool_result"], out["tool_result"], 1000>>} ELSE {})
        \cup (IF hook = UserPromptSubmit /\ "user_prompt" \in DOMAIN in
              THEN {<<in["user_prompt"], out["user_prompt"], 1000>>} ELSE {})

\* C7: bounding is idempotent: the bounding step applied to an event it has
\* produced (cut values carrying the marker included) returns it unchanged;
\* and a string longer than its ceiling C becomes a string of exactly C plus
\* the marker's length characters.
C7_TruncationIdempotent ==
    /\ pc = "rebounded" => data = stdin
    /\ pc = "bounded" =>
        \A p \in BoundedPairs :
            (p[1].t = "str" /\ Len(p[1].v) > p[3]) =>
                /\ p[2].t = "str"
                /\ \E m \in Markers :
                    /\ Len(p[2].v) = p[3] + Len(m)
                    /\ SubSeq(p[2].v, p[3] + 1, Len(p[2].v)) = m

\* the bounding step has run again on an event whose tool_result and
\* tool_input.command it had cut, and they carry their markers
C7_Witness ==
    /\ pc = "rebounded"
    /\ hook = PostToolUse
    /\ {"tool_result", "tool_input"} \subseteq DOMAIN stdin.v
    /\ stdin.v["tool_result"].t = "str"
    /\ Len(stdin.v["tool_result"].v) = 1014
    /\ SubSeq(stdin.v["tool_result"].v, 1001, 1014) = DotsTruncated
    /\ stdin.v["tool_input"].t = "obj"
    /\ "command" \in DOMAIN stdin.v["tool_input"].v
    /\ stdin.v["tool_input"].v["command"].t = "str"
    /\ Len(stdin.v["tool_input"].v["command"].v) = 503
    /\ data = stdin

(***************************************************************************)
(* detect_agent_from_prompt (lib/enrich.py).                               *)
(***************************************************************************)
LowerLetters ==
    <<"a", "b", "c", "d", "e", "f", "g", "h", "i", "j", "k", "l", "m",
      "n", "o", "p", "q", "r", "s", "t", "u", "v", "w", "x", "y", "z">>
UpperLetters ==
    <<"A", "B", "C", "D", "E", "F", "G", "H", "I", "J", "K", "L", "M",
      "N", "O", "P", "Q", "R", "S", "T", "U", "V", "W", "X", "Y", "Z">>

LowerChar(c) ==
    IF \E i \in 1..26 : UpperLetters[i] = c
    THEN LowerLetters[CHOOSE i \in 1..26 : UpperLetters[i] = c]
    ELSE c

UpperChar(c) ==
    IF \E i \in 1..26 : LowerLetters[i] = c
    THEN UpperLetters[CHOOSE i \in 1..26 : LowerLetters[i] = c]
    ELSE c

\* prompt.lower()
Lower(s) == [i \in 1..Len(s) |-> LowerChar(s[i])]

\* the alternation of the regular expression, in its order
Roles ==
    << <<"d", "e", "v">>,
       <<"a", "r", "c", "h", "i", "t", "e", "c", "t">>,
       <<"q", "a">>,
       <<"p", "m">>,
       <<"p", "o">>,
       <<"s", "m">>,
       <<"a", "n", "a", "l", "y", "s", "t">>,
       <<"d", "e", "v", "o", "p", "s">>,
       <<"a", "i", "o", "s", "-", "m", "a", "s", "t", "e", "r">> >>

RoleIds == 1..Len(Roles)

\* '@' followed by the characters of role stands at position i of s
MatchesAt(s, i, role) ==
    /\ i >= 1
    /\ i + Len(role) <= Len(s)
    /\ s[i] = "@"
    /\ SubSeq(s, i + 1, i + Len(role)) = role

\* the alternatives that match at position i
AltsAt(s, i) == {k \in RoleIds : MatchesAt(s, i, Roles[k])}

\* re.search: the leftmost position where the pattern matches, and there the
\* first alternative that does
RECURSIVE Search(_, _)
Search(s, i) ==
    IF i > Len(s) THEN JNull
    ELSE IF AltsAt(s, i) # {}
         THEN JStr(Roles[CHOOSE k \in AltsAt(s, i) : \A j \in AltsAt(s, i) : k <= j])
         ELSE Search(s, i + 1)

\* a matcher that tries each role in listing order over the whole text
SearchByListing(s) ==
    LET found == {k \in RoleIds : \E i \in 1..Len(s) : MatchesAt(s, i, Roles[k])}
    IN  IF found = {} THEN JNull
        ELSE JStr(Roles[CHOOSE k \in found : \A j \in found : k <= j])

\* detect_agent_from_prompt with the listing order deciding across positions
DetectByListingOrder(prompt) == SearchByListing(Lower(prompt))

detect_agent_from_prompt(prompt) == Search(Lower(prompt), 1)

(***************************************************************************)
(* Prompts.                                                                *)
(***************************************************************************)
At == <<"@">>
Space == <<" ">>

\* every upper/lower-casing of a role name
Casings(role) ==
    {[i \in 1..Len(role) |-> IF i \in S THEN UpperChar(role[i]) ELSE role[i]] :
        S \in SUBSET (1..Len(role))}

\* one role token, in every casing, alone or within other text
OneTokenPrompts ==
    {pre \o At \o c \o post :
        pre \in {<<>>, <<"h", "i", " ">>},
        c \in UNION {Casings(Roles[k]) : k \in RoleIds},
        post \in {<<>>, <<" ", "g", "o">>}}

RECURSIVE JoinTokens(_)
JoinTokens(ks) ==
    IF ks = <<>> THEN <<>>
    ELSE At \o Roles[Head(ks)] \o (IF Len(ks) = 1 THEN <<>> ELSE Space \o JoinTokens(Tail(ks)))

\* up to MaxTokens role tokens, separated by spaces
ManyTokenPrompts ==
    {JoinTokens(ks) : ks \in UNION {[1..n -> RoleIds] : n \in 2..MaxTokens}}
        \cup {<<"o", "k", " ">> \o JoinTokens(ks) \o <<" ", "X">> : ks \in [1..2 -> RoleIds]}
        \cup {At \o UpperChar(Roles[a][1]) \o Tail(Roles[a]) \o <<" ", "&", " ">> \o At \o Roles[b] :
                a \in RoleIds, b \in RoleIds}

\* no role name after an '@'
NoTokenPrompts ==
    {<<>>, <<"h", "i">>, At, <<"@", " ", "d", "e", "v">>, <<"d", "e", "v">>,
     <<"q", "a", " ", "@">>, <<"@", "d", "e">>, <<"@", "x">>, <<"a", "@", "b">>,
     <<"@", "@">>, <<"@", "a", "i", "o", "s", "-">>, <<"@", "Q", " ", "A">>}

\* text after an '@' that begins with a role name without being one
NearTokenPrompts ==
    {<<"@", "d", "e", "v", "e", "l", "o", "p", "e", "r">>,
     <<"x", "@", "p", "m">>, <<"@", "q", "a", "@", "s", "m">>,
     <<"@", "@", "p", "o">>, <<"@", "P", "O", "!", " ", "@", "q", "a">>,
     <<"@", "s", "m", "x", " ", "@", "q", "a", " ", "@", "p", "m">>}

Prompts == OneTokenPrompts \cup ManyTokenPrompts \cup NoTokenPrompts \cup NearTokenPrompts

InitDetect ==
    /\ data \in {JStr(p) : p \in Prompts}
    /\ pc = "call"
    /\ result = Pending
    /\ hook = UserPromptSubmit
    /\ stdin = data
    /\ env = NoEnv
    /\ conf = NoConf
    /\ fs = NoFs
    /\ net = "none"
    /\ posts = 0
    /\ exitCode = -1

\* a call of detect_agent_from_prompt on the prompt
DetectAgent ==
    /\ pc = "call"
    /\ result' = detect_agent_from_prompt(data.v)
    /\ pc' = "returned"
    /\ UNCHANGED <<hook, stdin, data, env, conf, fs, net, posts, exitCode>>

NextDetect == DetectAgent

SpecDetect == InitDetect /\ [][NextDetect]_vars

(***************************************************************************)
(* Claims about detect_agent_from_prompt (SpecDetect).  data is the        *)
(* prompt, result the value returned.                                      *)
(***************************************************************************)
\* the text of the '@'-prefixed token that starts at position i: the
\* characters after the '@' up to the next space or '@'
TokenAt(s, i) ==
    LET ends == {e \in i..Len(s) : \A j \in (i + 1)..e : s[j] \notin {" ", "@"}}
    IN  SubSeq(s, i + 1, CHOOSE e \in ends : \A f \in ends : f <= e)

AtPositions(s) == {i \in 1..Len(s) : s[i] = "@"}

\* the roles named by the '@'-prefixed tokens of s, whatever their casing
TokenRoles(s) ==
    {k \in RoleIds : \E i \in AtPositions(s) : Lower(TokenAt(s, i)) = Roles[k]}

\* word follows an '@' at position i of s, compared case-insensitively
FollowsAt(s, i, word) ==
    /\ s[i] = "@"
    /\ \A n \in 1..Len(word) : i + n <= Len(s) /\ LowerChar(s[i + n]) = word[n]

\* C9 as stated: when two different role tokens appear in a prompt, the one
\* whose role comes earlier in the listing order is returned, wherever the
\* tokens stand in the text.
C9_ListingOrderDecides ==
    (pc = "returned" /\ Cardinality(TokenRoles(data.v)) = 2) =>
        \E k \in TokenRoles(data.v) :
            /\ \A j \in TokenRoles(data.v) : k <= j
            /\ result = JStr(Roles[k])

\* C9 amended: when two or more different role tokens appear in a prompt, the
\* role returned is the one whose name follows the leftmost '@' that any role
\* name follows; the listing order decides only between the names that
\* follow that same '@'.
C9_LeftmostMatchDecides ==
    (pc = "returned" /\ Cardinality(TokenRoles(data.v)) >= 2) =>
        \E i \in AtPositions(data.v), k \in RoleIds :
            /\ result = JStr(Roles[k])
            /\ FollowsAt(data.v, i, Roles[k])
            /\ \A j \in AtPositions(data.v), m \in RoleIds :
                FollowsAt(data.v, j, Roles[m]) => (i < j \/ (i = j /\ k <= m))

\* the token of a role listed later stands first in the text, and is returned
C9_Witness ==
    /\ pc = "returned"
    /\ data.v = <<"@", "q", "a", " ", "@", "d", "e", "v">>
    /\ TokenRoles(data.v) = {1, 3}
    /\ result = JStr(Roles[3])

\* C10: for every role r and every casing of it, a prompt whose only
\* '@'-prefixed token is '@r' yields r in lower case; a prompt in which no
\* role name follows an '@' yields None.
C10_EveryRoleDetected ==
    pc = "returned" =>
        /\ \A k \in RoleIds :
            (\E i \in AtPositions(data.v) :
                /\ AtPositions(data.v) = {i}
                /\ Lower(TokenAt(data.v, i)) = Roles[k])
            => result = JStr(Roles[k])
        /\ (\A i \in AtPositions(data.v), k \in RoleIds : ~FollowsAt(data.v, i, Roles[k]))
            => result = JNull

(***************************************************************************)
(* The context enricher (lib/enrich.py).                                   *)
(***************************************************************************)
\* what a call gives back: a value returned or an exception raised; d is the
\* event dict as the call left it (enrich_event mutates it in place)
Ret(val, d) == [ok |-> TRUE, v |-> val, d |-> d]
Raise(name, d) == [ok |-> FALSE, v |-> [t |-> "exc", v |-> name], d |-> d]

\* os.environ.get(name) is truthy: set, and not the empty string
EnvTruthy(e, name) == name \in DOMAIN e /\ e[name] # <<>>

\* the parts of a path: its '/'-separated segments without the empty ones
\* and the '.' ones (pathlib drops both)
RECURSIVE PathParts(_, _, _)
PathParts(s, i, cur) ==
    LET kept == IF cur \in {<<>>, <<".">>} THEN <<>> ELSE <<cur>>
    IN  IF i > Len(s) THEN kept
        ELSE IF s[i] = "/" THEN kept \o PathParts(s, i + 1, <<>>)
        ELSE PathParts(s, i + 1, Append(cur, s[i]))

\* Path(cwd).name
PathName(s) ==
    LET parts == PathParts(s, 1, <<>>)
    IN  IF parts = <<>> THEN <<>> ELSE parts[Len(parts)]

markers ==
    << ".git", "package.json", "Cargo.toml", "go.mod", "pyproject.toml" >>

\* the loop over the markers from the i-th on.  (path / marker).exists() is
\* "exists" or "absent", or "error" when stat fails with an errno pathlib
\* does not swallow (EACCES, ENAMETOOLONG: CPython 3.10 and 3.11 re-raise it)
RECURSIVE ProbeMarkers(_, _, _)
ProbeMarkers(name, probe, i) ==
    IF i > Len(markers) THEN Ret(JStr(name), EmptyDict)
    ELSE CASE probe[markers[i]] = "exists" -> Ret(JStr(name), EmptyDict)
           [] probe[markers[i]] = "error" -> Raise("OSError", EmptyDict)
           [] OTHER -> ProbeMarkers(name, probe, i + 1)

\* detect_project(cwd); Path(cwd) raises TypeError unless cwd is a str
detect_project(cwd, probe) ==
    IF cwd.t # "str" THEN Raise("TypeError", EmptyDict)
    ELSE ProbeMarkers(PathName(cwd.v), probe, 1)

\* the three environment blocks of enrich_event
EnvKeys ==
    << <<"AIOS_AGENT", "aios_agent">>,
       <<"AIOS_STORY_ID", "aios_story_id">>,
       <<"AIOS_TASK_ID", "aios_task_id">> >>

RECURSIVE EnrichEnv(_, _, _)
EnrichEnv(d, e, i) ==
    IF i > Len(EnvKeys) THEN d
    ELSE EnrichEnv(IF EnvTruthy(e, EnvKeys[i][1])
                   THEN SetKey(d, EnvKeys[i][2], JStr(e[EnvKeys[i][1]]))
                   ELSE d,
                   e, i + 1)

\* data.get(key, default)
DictGet(d, key, default) == IF key \in DOMAIN d THEN d[key] ELSE default

\* the prompt block with the detected agent written whatever aios_agent holds
EnrichPromptAlways(d) ==
    LET user_prompt == DictGet(d, "user_prompt", JStr(<<>>))
    IN  IF ~Truthy(user_prompt) THEN Ret(JObj(d), d)
        ELSE IF user_prompt.t # "str" THEN Raise("AttributeError", d)
        ELSE LET detected_agent == detect_agent_from_prompt(user_prompt.v)
             IN  IF Truthy(detected_agent)
                 THEN Ret(JObj(SetKey(d, "aios_agent", detected_agent)),
                          SetKey(d, "aios_agent", detected_agent))
                 ELSE Ret(JObj(d), d)

\* the prompt block of enrich_event; prompt.lower() raises AttributeError
\* unless the prompt is a str
EnrichPrompt(d) ==
    LET user_prompt == DictGet(d, "user_prompt", JStr(<<>>))
    IN  IF ~Truthy(user_prompt) THEN Ret(JObj(d), d)
        ELSE IF user_prompt.t # "str" THEN Raise("AttributeError", d)
        ELSE LET detected_agent == detect_agent_from_prompt(user_prompt.v)
             IN  IF Truthy(detected_agent) /\ ~Truthy(DictGet(d, "aios_agent", JNull))
                 THEN Ret(JObj(SetKey(d, "aios_agent", detected_agent)),
                          SetKey(d, "aios_agent", detected_agent))
                 ELSE Ret(JObj(d), d)

\* the project block writing into a fresh dict
SetProjectFresh(d, name) == [x \in {"project"} |-> name]

\* data["project"] = detect_project(cwd)
SetProject(d, name) == SetKey(d, "project", name)

\* enrich_event(data) with the environment e, the process directory and the
\* marker probes of f; data.get raises AttributeError unless data is a dict
enrich_event(j, e, f) ==
    IF j.t # "obj" THEN Raise("AttributeError", EmptyDict)
    ELSE LET project == detect_project(DictGet(j.v, "cwd", JStr(f.cwd)), f.probe)
         IN  IF ~project.ok THEN Raise(project.v.v, j.v)
             ELSE EnrichPrompt(EnrichEnv(SetProject(j.v, project.v), e, 1))

(***************************************************************************)
(* Inputs of the enricher.                                                 *)
(***************************************************************************)
CwdValues ==
    {JStr(<<"/", "w", "/", "a", "p", "p">>),
     JStr(<<"/", "w", "/", "a", "p", "p", "/">>),
     JStr(<<"a", "/", ".", "/", "b", "/", ".">>),
     JStr(<<"/", "a", "/", "/", ".", "b">>),
     JStr(<<"/">>), JStr(<<>>), JStr(<<".", ".">>), JStr(<<"x">>),
     JNull, JNum(5)}

PromptValues ==
    {JStr(<<>>), JStr(<<"h", "i">>),
     JStr(<<"@", "d", "e", "v", " ", "f", "i", "x">>),
     JStr(<<"@", "A", "r", "c", "h", "i", "t", "e", "c", "t", " ", "r", "e", "v", "i", "e", "w">>),
     JNum(5), JNum(0)}

AgentValues == {JStr(<<>>), JStr(<<"h", "o", "s", "t">>), JNull}

\* host-supplied keys beside cwd, user_prompt and aios_agent
OtherKeys ==
    {EmptyDict,
     [k \in {"project", "session_id"} |-> JStr(<<"o", "l", "d">>)],
     [k \in {"aios_story_id", "tool_input"} |->
        IF k = "tool_input" THEN JObj([a \in {"command"} |-> JStr(<<"l", "s">>)])
        ELSE JStr(<<"h", "1">>)]}

\* rest extended with the keys of K, taken from cwd, up and ag
EventWith(rest, K, cwd, up, ag) ==
    [k \in DOMAIN rest \cup K |->
        CASE k = "cwd" -> cwd
          [] k = "user_prompt" -> up
          [] k = "aios_agent" -> ag
          [] OTHER -> rest[k]]

EnrichInputs ==
    UNION {
        {EventWith(rest, K, cwd, up, ag) :
            rest \in OtherKeys, cwd \in CwdValues, up \in PromptValues, ag \in AgentValues}
        : K \in SUBSET {"cwd", "user_prompt", "aios_agent"}}

\* the environments: each variable unset, empty or set
ContextEnvs ==
    UNION {
        {[n \in N |->
            CASE n = "AIOS_AGENT" -> ag
              [] n = "AIOS_STORY_ID" -> st
              [] OTHER -> <<"T", "-", "1">>] :
            ag \in {<<>>, <<"d", "e", "v", "o", "p", "s">>},
            st \in {<<>>, <<"S", "-", "1">>}}
        : N \in SUBSET {"AIOS_AGENT", "AIOS_STORY_ID", "AIOS_TASK_ID"}}

\* what the probes of the markers find in the directory
Probes ==
    {[m \in {markers[i] : i \in 1..Len(markers)} |-> "absent"],
     [m \in {markers[i] : i \in 1..Len(markers)} |-> IF m = ".git" THEN "exists" ELSE "absent"],
     [m \in {markers[i] : i \in 1..Len(markers)} |->
        IF m = "pyproject.toml" THEN "exists" ELSE "absent"],
     [m \in {markers[i] : i \in 1..Len(markers)} |->
        IF m = ".git" THEN "exists" ELSE IF m = "go.mod" THEN "error" ELSE "absent"],
     [m \in {markers[i] : i \in 1..Len(markers)} |-> "error"]}

\* os.getcwd()
ProcessDirs == {<<"/", "h", "/", "p", "r", "o", "j">>}

FileSystems == {[cwd |-> c, probe |-> p] : c \in ProcessDirs, p \in Probes}

InitEnrich ==
    /\ stdin \in {JObj(d) : d \in EnrichInputs}
    /\ data = stdin
    /\ env \in ContextEnvs
    /\ fs \in FileSystems
    /\ pc = "call"
    /\ result = Pending
    /\ hook = Stop
    /\ conf = NoConf
    /\ net = "none"
    /\ posts = 0
    /\ exitCode = -1

\* a call of enrich_event on the event
Enrich ==
    /\ pc = "call"
    /\ LET r == enrich_event(data, env, fs)
       IN  /\ data' = JObj(r.d)
           /\ result' = r.v
           /\ pc' = IF r.ok THEN "returned" ELSE "raised"
    /\ UNCHANGED <<hook, stdin, env, conf, fs, net, posts, exitCode>>

NextEnrich == Enrich

SpecEnrich == InitEnrich /\ [][NextEnrich]_vars

(***************************************************************************)
(* Claims about enrich_event (SpecEnrich).  stdin is the mapping passed    *)
(* in, data the mapping as the call left it.                               *)
(***************************************************************************)
ContextKeys == {"project", "aios_agent", "aios_story_id", "aios_task_id"}

\* key k is absent from both dicts or holds the same value in both
SameAt(d1, d2, k) ==
    /\ (k \in DOMAIN d1) = (k \in DOMAIN d2)
    /\ k \in DOMAIN d1 => d1[k] = d2[k]

\* the value of key k differs between the dicts, or k is in only one
WrittenAt(d1, d2, k) == ~SameAt(d1, d2, k)

\* C5: a non-empty AIOS_AGENT always ends up in aios_agent, whatever the
\* prompt holds; an agent derived from user_prompt is written only when
\* aios_agent is unset (absent or empty) after the environment check and the
\* prompt contains a match; aios_agent, aios_story_id and aios_task_id are
\* written from the environment only for non-empty variables.
C5_EnvironmentAgentWins ==
    pc = "returned" =>
        /\ EnvTruthy(env, "AIOS_AGENT") =>
            /\ "aios_agent" \in DOMAIN data.v
            /\ data.v["aios_agent"] = JStr(env["AIOS_AGENT"])
        /\ (~EnvTruthy(env, "AIOS_AGENT") /\ WrittenAt(stdin.v, data.v, "aios_agent")) =>
            /\ "aios_agent" \in DOMAIN stdin.v => ~Truthy(stdin.v["aios_agent"])
            /\ "user_prompt" \in DOMAIN stdin.v
            /\ stdin.v["user_prompt"].t = "str"
            /\ \E i \in AtPositions(stdin.v["user_prompt"].v), k \in RoleIds :
                /\ FollowsAt(stdin.v["user_prompt"].v, i, Roles[k])
                /\ data.v["aios_agent"] = JStr(Roles[k])
        /\ \A i \in 2..3 :
            IF EnvTruthy(env, EnvKeys[i][1])
            THEN /\ EnvKeys[i][2] \in DOMAIN data.v
                 /\ data.v[EnvKeys[i][2]] = JStr(env[EnvKeys[i][1]])
            ELSE SameAt(stdin.v, data.v, EnvKeys[i][2])

\* AIOS_AGENT=devops and a prompt that names @dev: aios_agent is devops
C5_Witness ==
    /\ pc = "returned"
    /\ EnvTruthy(env, "AIOS_AGENT")
    /\ env["AIOS_AGENT"] = <<"d", "e", "v", "o", "p", "s">>
    /\ "user_prompt" \in DOMAIN stdin.v
    /\ stdin.v["user_prompt"] = JStr(<<"@", "d", "e", "v", " ", "f", "i", "x">>)
    /\ data.v["aios_agent"] = JStr(<<"d", "e", "v", "o", "p", "s">>)

\* C6: enrichment is additive: every key of the input mapping is a key of
\* the enriched mapping, and every key other than project, aios_agent,
\* aios_story_id and aios_task_id keeps its value.
C6_EnrichmentAdditive ==
    pc = "returned" =>
        /\ DOMAIN stdin.v \subseteq DOMAIN data.v
        /\ \A k \in DOMAIN stdin.v \ ContextKeys : data.v[k] = stdin.v[k]

\* an input with host keys and an old project: the project is overwritten,
\* a context key is added, the host keys are still there
C6_Witness ==
    /\ pc = "returned"
    /\ {"project", "session_id", "cwd"} \subseteq DOMAIN stdin.v
    /\ data.v["project"] # stdin.v["project"]
    /\ "aios_task_id" \in DOMAIN data.v
    /\ data.v["session_id"] = stdin.v["session_id"]

\* the working directory enrich_event uses: the event's cwd, else os.getcwd()
WorkDir == IF "cwd" \in DOMAIN stdin.v THEN stdin.v["cwd"] ELSE JStr(fs.cwd)

\* text after the last segment: only '/' and whole '.' segments
OnlySeparators(s) ==
    \A k \in 1..Len(s) :
        /\ s[k] \in {"/", "."}
        /\ s[k] = "." => /\ k > 1 /\ s[k - 1] = "/"
                         /\ k = Len(s) \/ s[k + 1] = "/"

\* name is the final segment of path s: the last run of characters between
\* '/' that is not empty and not '.', or the empty string when there is none
IsFinalSegment(name, s) ==
    \/ /\ name = <<>>
       /\ OnlySeparators(<<"/">> \o s)
    \/ \E i \in 1..Len(s), j \in 1..Len(s) :
        /\ i <= j
        /\ name = SubSeq(s, i, j)
        /\ name # <<".">>
        /\ \A k \in i..j : s[k] # "/"
        /\ i = 1 \/ s[i - 1] = "/"
        /\ OnlySeparators(SubSeq(s, j + 1, Len(s)))

\* C8: given a working directory (the event's cwd, or the process directory
\* when cwd is absent), detect_project never raises, whatever markers exist
\* there, and after enrich_event project is present and holds the final
\* path segment of that directory.
C8_ProjectAlwaysSet ==
    (pc \in {"returned", "raised"} /\ WorkDir.t = "str") =>
        /\ detect_project(WorkDir, fs.probe).ok
        /\ "project" \in DOMAIN data.v
        /\ data.v["project"].t = "str"
        /\ IsFinalSegment(data.v["project"].v, WorkDir.v)

\* C8 where every probe of a marker answers: project is the final segment
C8_ProjectWhenProbesAnswer ==
    (pc \in {"returned", "raised"} /\ WorkDir.t = "str"
        /\ \A i \in 1..Len(markers) : fs.probe[markers[i]] # "error") =>
        /\ detect_project(WorkDir, fs.probe).ok
        /\ "project" \in DOMAIN data.v
        /\ data.v["project"].t = "str"
        /\ IsFinalSegment(data.v["project"].v, WorkDir.v)

(***************************************************************************)
(* The event sender (lib/send_event.py).                                   *)
(***************************************************************************)
DefaultUrl ==
    <<"h", "t", "t", "p", ":", "/", "/", "l", "o", "c", "a", "l", "h", "o", "s", "t",
      ":", "4", "0", "0", "1">>
DefaultTimeoutText == <<"5", "0", "0">>

Digits == <<"0", "1", "2", "3", "4", "5", "6", "7", "8", "9">>
IsDigit(c) == \E i \in 1..10 : Digits[i] = c
DigitValue(c) == (CHOOSE i \in 1..10 : Digits[i] = c) - 1

\* the text is an optional sign followed by one or more digits (the blanks
\* and '_' separators int() also accepts are not explored)
IsIntLiteral(s) ==
    LET body == IF s # <<>> /\ s[1] \in {"-", "+"} THEN Tail(s) ELSE s
    IN  body # <<>> /\ \A i \in 1..Len(body) : IsDigit(body[i])

RECURSIVE DigitsValue(_)
DigitsValue(s) ==
    IF s = <<>> THEN 0 ELSE 10 * DigitsValue(SubSeq(s, 1, Len(s) - 1)) + DigitValue(s[Len(s)])

\* int(text), for an integer literal
IntOf(s) ==
    IF s[1] = "-" THEN 0 - DigitsValue(Tail(s))
    ELSE IF s[1] = "+" THEN DigitsValue(Tail(s))
    ELSE DigitsValue(s)

\* SERVER_URL = os.environ.get("AIOS_MONITOR_URL", "http://localhost:4001")
ServerUrl(e) == IF "AIOS_MONITOR_URL" \in DOMAIN e THEN e["AIOS_MONITOR_URL"] ELSE DefaultUrl

\* os.environ.get("AIOS_MONITOR_TIMEOUT_MS", "500")
TimeoutText(e) ==
    IF "AIOS_MONITOR_TIMEOUT_MS" \in DOMAIN e THEN e["AIOS_MONITOR_TIMEOUT_MS"]
    ELSE DefaultTimeoutText

\* the two module-level statements of send_event.py, run at import; int()
\* raises ValueError on text that is no integer
LoadConfig(e) ==
    IF IsIntLiteral(TimeoutText(e))
    THEN Ret([t |-> "conf", v |-> [url |-> ServerUrl(e), timeout_ms |-> IntOf(TimeoutText(e))]],
             EmptyDict)
    ELSE Raise("ValueError", EmptyDict)

\* json.dumps accepts the value
RECURSIVE Serializable(_)
Serializable(j) ==
    CASE j.t = "pyobj" -> FALSE
      [] j.t = "list" -> \A i \in 1..Len(j.v) : Serializable(j.v[i])
      [] j.t = "obj" -> \A k \in DOMAIN j.v : Serializable(j.v[k])
      [] OTHER -> TRUE

IsPrefix(p, s) == Len(p) <= Len(s) /\ SubSeq(s, 1, Len(p)) = p

\* the URL is an HTTP one; a URL without a scheme makes Request() raise
\* ValueError (URLs of other schemes, data: or file:, are not explored)
HasHttpScheme(u) ==
    \/ IsPrefix(<<"h", "t", "t", "p", ":", "/", "/">>, u)
    \/ IsPrefix(<<"h", "t", "t", "p", "s", ":", "/", "/">>, u)

\* the request goes out: the envelope serializes, Request() accepts the URL
\* and the timeout lets the socket connect
PostIssued(j, c) == Serializable(j) /\ HasHttpScheme(c.url) /\ c.timeout_ms > 0

\* the exception raised inside the try block, "none" if there is none
SendFailure(j, c, n) ==
    IF ~Serializable(j) THEN "TypeError"
    ELSE IF ~HasHttpScheme(c.url) THEN "ValueError"
    ELSE IF c.timeout_ms < 0 THEN "ValueError"
    ELSE IF c.timeout_ms = 0 THEN "BlockingIOError"
    ELSE CASE n = "ok" -> "none"
           [] n = "non2xx" -> "HTTPError"
           [] n = "timeout" -> "TimeoutError"
           [] OTHER -> "URLError"

\* an except clause for urllib's own errors only
CaughtUrlErrorsOnly(exc) == exc \in {"URLError", "HTTPError"}

\* except Exception: every exception of the try block is an Exception
Caught(exc) == exc \in {"TypeError", "ValueError", "BlockingIOError", "HTTPError",
                        "TimeoutError", "URLError"}

\* send_event that posts a second time when the first POST fails
SendEventRetrying(event_type, j, c, n) ==
    LET exc == SendFailure(j, c, n)
        posted == IF PostIssued(j, c) THEN (IF exc = "none" THEN 1 ELSE 2) ELSE 0
    IN  IF exc = "none" THEN [ok |-> TRUE, v |-> PyBool(TRUE), posted |-> posted]
        ELSE [ok |-> TRUE, v |-> PyBool(FALSE), posted |-> posted]

\* send_event(event_type, data): what it returns or raises, and the number of
\* POSTs it issued
send_event(event_type, j, c, n) ==
    LET exc == SendFailure(j, c, n)
        posted == IF PostIssued(j, c) THEN 1 ELSE 0
    IN  IF exc = "none" THEN [ok |-> TRUE, v |-> PyBool(TRUE), posted |-> posted]
        ELSE IF Caught(exc) THEN [ok |-> TRUE, v |-> PyBool(FALSE), posted |-> posted]
        ELSE [ok |-> FALSE, v |-> [t |-> "exc", v |-> exc], posted |-> posted]

NetOutcomes == {"ok", "unreachable", "timeout", "non2xx", "dns"}

\* values of SERVER_URL and TIMEOUT_MS after import
Configs ==
    {[url |-> u, timeout_ms |-> t] :
        u \in {DefaultUrl, <<"h", "t", "t", "p", "s", ":", "/", "/", "m">>, <<"m">>, <<>>},
        t \in {500, 250, 0, -5}}

\* event mappings given to send_event
SendInputs ==
    {JObj(EmptyDict),
     JObj([k \in {"project"} |-> JStr(<<"a", "p", "p">>)]),
     JObj([k \in {"tool_input"} |-> JObj([a \in {"command"} |-> JStr(<<"l", "s">>)])]),
     JObj([k \in {"tool_input"} |-> JObj([a \in {"command"} |-> PyObj])]),
     JObj([k \in {"items", "n"} |-> IF k = "n" THEN JNum(1) ELSE JList(<<JNull, PyObj>>)]),
     JObj([k \in {"x"} |-> PyObj]),
     JList(<<JNum(1)>>), JNull, PyObj}

InitSend ==
    /\ hook \in Hooks \cup {"Custom", ""}
    /\ data \in SendInputs
    /\ stdin = data
    /\ conf \in Configs
    /\ net \in NetOutcomes
    /\ pc = "call"
    /\ result = Pending
    /\ env = NoEnv
    /\ fs = NoFs
    /\ posts = 0
    /\ exitCode = -1

\* a call of send_event
SendEvent ==
    /\ pc = "call"
    /\ LET r == send_event(hook, data, conf, net)
       IN  /\ result' = r.v
           /\ posts' = posts + r.posted
           /\ pc' = IF r.ok THEN "returned" ELSE "raised"
    /\ UNCHANGED <<hook, stdin, data, env, conf, fs, net, exitCode>>

NextSend == SendEvent

SpecSend == InitSend /\ [][NextSend]_vars

\* C1: send never propagates an error: for every event type, event mapping
\* and outcome of the POST it returns a boolean, which is true exactly when
\* the POST was made and completed without failure.
C1_SendNeverRaises ==
    pc \in {"returned", "raised"} =>
        /\ pc = "returned"
        /\ result.t = "bool"
        /\ result.v = (posts = 1 /\ net = "ok")

\* a POST answered with a non-2xx status, and a mapping that does not
\* serialize: both calls came back with False
C1_Witness ==
    /\ pc = "returned"
    /\ result = PyBool(FALSE)
    /\ \/ posts = 1 /\ net = "non2xx"
       \/ posts = 0 /\ ~Serializable(data) /\ net = "ok"

(***************************************************************************)
(* The hook processes: main() of pre_tool_use.py, post_tool_use.py,        *)
(* user_prompt_submit.py and stop.py.                                      *)
(***************************************************************************)
\* standard input that json.load rejects
Malformed == [t |-> "malformed", v |-> 0]

KeyChars(key) ==
    CASE key = "tool_input" -> <<"t", "o", "o", "l", "_", "i", "n", "p", "u", "t">>
      [] key = "tool_result" -> <<"t", "o", "o", "l", "_", "r", "e", "s", "u", "l", "t">>
      [] OTHER -> <<"u", "s", "e", "r", "_", "p", "r", "o", "m", "p", "t">>

\* sub in s, for strings
IsSubstring(sub, s) ==
    \E i \in 0..(Len(s) - Len(sub)) : SubSeq(s, i + 1, i + Len(sub)) = sub

\* the keys main() tests with `in', in the order it tests them
ProbedKeys(h) ==
    CASE h = PreToolUse -> <<"tool_input">>
      [] h = PostToolUse -> <<"tool_result", "tool_input">>
      [] h = UserPromptSubmit -> <<"user_prompt">>
      [] OTHER -> <<>>

\* `key in data' followed by data[key], for data that is no dict: `in' raises
\* TypeError on a number, null or boolean, and data[key] raises TypeError on
\* a list or string that contains the key
NonDictProbeRaises(j, key) ==
    CASE j.t = "list" -> \E i \in 1..Len(j.v) : j.v[i] = JStr(KeyChars(key))
      [] j.t = "str" -> IsSubstring(KeyChars(key), j.v)
      [] OTHER -> TRUE

\* the statements of main() between json.load and enrich_event
BoundStep(h, j) ==
    IF j.t = "obj" THEN Ret(JObj(BoundDict(h, j.v)), EmptyDict)
    ELSE IF \E i \in 1..Len(ProbedKeys(h)) : NonDictProbeRaises(j, ProbedKeys(h)[i])
         THEN Raise("TypeError", EmptyDict)
         ELSE Ret(j, EmptyDict)

\* what the host writes to standard input
HookInputs ==
    {Malformed,
     JObj(EmptyDict),
     JObj([k \in {"tool_result", "tool_input"} |->
        IF k = "tool_result" THEN JStr(Rep(ToolResultCeiling + Slack, "a", "b"))
        ELSE JObj([a \in {"command"} |-> JStr(Rep(ToolInputCeiling + Slack, "a", "b"))])]),
     JObj([k \in {"user_prompt", "session_id"} |->
        IF k = "user_prompt" THEN JStr(<<"@", "q", "a", " ">> \o Rep(UserPromptCeiling, "a", "b"))
        ELSE JStr(<<"s", "1">>)]),
     JObj([k \in {"cwd", "user_prompt"} |->
        IF k = "cwd" THEN JStr(<<"/", "w", "/", "a", "p", "p">>)
        ELSE JStr(<<"@", "d", "e", "v", " ", "f", "i", "x">>)]),
     JObj([k \in {"cwd"} |-> JNull]),
     JObj([k \in {"cwd"} |-> JNum(5)]),
     JObj([k \in {"user_prompt"} |-> JNum(5)]),
     JObj([k \in {"user_prompt"} |-> JNum(0)]),
     JObj([k \in {"tool_input", "tool_result"} |->
        IF k = "tool_input" THEN JList(<<JNum(1)>>) ELSE JObj([a \in {"out"} |-> JNum(1)])]),
     JList(<<JNum(1)>>),
     JList(<<JStr(KeyChars("tool_input"))>>),
     JStr(KeyChars("user_prompt")),
     JStr(<<"h", "i">>),
     JNum(5),
     JNull}

\* a dict holding the given variables
EnvOf(names, url, timeout, agent) ==
    [n \in names |->
        CASE n = "AIOS_MONITOR_URL" -> url
          [] n = "AIOS_MONITOR_TIMEOUT_MS" -> timeout
          [] OTHER -> agent]

\* the environments the host starts a hook in
HookEnvs ==
    {EnvOf({}, <<>>, <<>>, <<>>),
     EnvOf({"AIOS_AGENT", "AIOS_STORY_ID"}, <<>>, <<>>, <<"d", "e", "v", "o", "p", "s">>),
     EnvOf({"AIOS_MONITOR_URL", "AIOS_MONITOR_TIMEOUT_MS"},
           <<"h", "t", "t", "p", ":", "/", "/", "m">>, <<"2", "5", "0">>, <<>>),
     EnvOf({"AIOS_MONITOR_URL", "AIOS_TASK_ID"}, <<"m">>, <<>>, <<>>),
     EnvOf({"AIOS_MONITOR_URL"}, <<>>, <<>>, <<>>),
     EnvOf({"AIOS_MONITOR_TIMEOUT_MS"}, <<>>, <<"a", "b", "c">>, <<>>),
     EnvOf({"AIOS_MONITOR_TIMEOUT_MS"}, <<>>, <<>>, <<>>),
     EnvOf({"AIOS_MONITOR_TIMEOUT_MS"}, <<>>, <<"0">>, <<>>),
     EnvOf({"AIOS_MONITOR_TIMEOUT_MS", "AIOS_AGENT"}, <<>>, <<"-", "5">>, <<>>)}

Init ==
    /\ hook \in Hooks
    /\ stdin \in HookInputs
    /\ env \in HookEnvs
    /\ fs \in FileSystems
    /\ net \in NetOutcomes
    /\ pc = "start"
    /\ data = Pending
    /\ conf = NoConf
    /\ result = Pending
    /\ posts = 0
    /\ exitCode = -1

\* the imports at the top of the hook: lib.send_event reads its configuration
LoadModules ==
    /\ pc = "start"
    /\ LET r == LoadConfig(env)
       IN  IF r.ok
           THEN /\ conf' = r.v.v
                /\ pc' = "loaded"
                /\ UNCHANGED exitCode
           ELSE /\ pc' = "exited"
                /\ exitCode' = 1
                /\ UNCHANGED conf
    /\ UNCHANGED <<hook, stdin, data, env, fs, net, posts, result>>

\* data = json.load(sys.stdin)
ReadStdin ==
    /\ pc = "loaded"
    /\ IF stdin = Malformed
       THEN /\ pc' = "exited"
            /\ exitCode' = 1
            /\ UNCHANGED data
       ELSE /\ data' = stdin
            /\ pc' = "parsed"
            /\ UNCHANGED exitCode
    /\ UNCHANGED <<hook, stdin, env, conf, fs, net, posts, result>>

\* the truncation block of main()
Bound ==
    /\ pc = "parsed"
    /\ LET r == BoundStep(hook, data)
       IN  IF r.ok
           THEN /\ data' = r.v
                /\ pc' = "bounded"
                /\ UNCHANGED exitCode
           ELSE /\ pc' = "exited"
                /\ exitCode' = 1
                /\ UNCHANGED data
    /\ UNCHANGED <<hook, stdin, env, conf, fs, net, posts, result>>

\* data = enrich_event(data)
EnrichData ==
    /\ pc = "bounded"
    /\ LET r == enrich_event(data, env, fs)
       IN  IF r.ok
           THEN /\ data' = r.v
                /\ pc' = "enriched"
                /\ UNCHANGED exitCode
           ELSE /\ pc' = "exited"
                /\ exitCode' = 1
                /\ UNCHANGED data
    /\ UNCHANGED <<hook, stdin, env, conf, fs, net, posts, result>>

\* send_event(<hook's event type>, data)
Send ==
    /\ pc = "enriched"
    /\ LET r == send_event(hook, data, conf, net)
       IN  /\ posts' = posts + r.posted
           /\ IF r.ok
              THEN /\ result' = r.v
                   /\ pc' = "sent"
                   /\ UNCHANGED exitCode
              ELSE /\ pc' = "exited"
                   /\ exitCode' = 1
                   /\ UNCHANGED result
    /\ UNCHANGED <<hook, stdin, data, env, conf, fs, net>>

\* main() returns and the interpreter exits
Exit ==
    /\ pc = "sent"
    /\ pc' = "exited"
    /\ exitCode' = 0
    /\ UNCHANGED <<hook, stdin, data, env, conf, fs, net, posts, result>>

Next == LoadModules \/ ReadStdin \/ Bound \/ EnrichData \/ Send \/ Exit

Spec == Init /\ [][Next]_vars

(***************************************************************************)
(* Claims about the hook processes (Spec).                                 *)
(***************************************************************************)
\* C1 is stated with SpecSend, C4 and C7 with SpecBound, C5, C6 and C8 with
\* SpecEnrich, C9 and C10 with SpecDetect.

\* C2: a hook exits with a non-zero status if and only if standard input is
\* not parseable JSON: whatever JSON value is read, whatever the types of
\* its fields, the environment and the outcome of the send, it exits with 0.
C2_NonZeroExitIffMalformed ==
    pc = "exited" => ((exitCode # 0) <=> (stdin = Malformed))

\* C3: a run attempts at most one POST, and only once parse, bound and
\* enrich have completed in that order; when parsing fails there is none.
C3_SinglePostAfterPipeline ==
    /\ [](posts <= 1)
    /\ [](stdin = Malformed => posts = 0)
    /\ [][/\ posts' # posts => (pc = "enriched" /\ posts' = posts + 1)
          /\ (pc' = "enriched" /\ pc # "enriched") => pc = "bounded"
          /\ (pc' = "bounded" /\ pc # "bounded") => pc = "parsed"
          /\ (pc' = "parsed" /\ pc # "parsed") => (pc = "loaded" /\ stdin # Malformed)]_vars

\* a run whose single POST failed ended without a second one
C3_Witness ==
    /\ pc = "exited"
    /\ exitCode = 0
    /\ posts = 1
    /\ result = PyBool(FALSE)
    /\ net = "timeout"

====
